---- MODULE Spec2Model ----
(***************************************************************************)
(* Model of src/main.rs of kleinanzeigen-telegram-rust-bot: one run of     *)
(* main() loads the seen-ads history, collects the listing pages, sends a  *)
(* Telegram notification for every ad that is not in the loaded history,   *)
(* appends the ids it counts as sent, prunes the history and saves it.     *)
(* The program is a single-shot job started again and again by a           *)
(* scheduler, so the model runs main() up to MaxRuns times over one        *)
(* history file.                                                           *)
(***************************************************************************)
EXTENDS Integers, Sequences, FiniteSets, TLC

\* ---------------------------------------------------------------- bounds
\* Ad ids of the model's universe.
NumIds == 3
\* Most ads one scraped page yields.
MaxPageLen == 2
\* Pages of the site that can hold ads; every page behind them is empty.
NumSitePages == 2
\* Runs of main() in one behaviour.
MaxRuns == 2
\* The retry_after value a 429 answer carries when it carries one.
HintSecs == 5

\* ------------------------------------------------------ program constants
\* main.rs:23 sets 1000; scaled down so that pruning happens within the bounds.
MAX_SEEN_ADS == 2
\* main.rs:24 sets 25; scaled down so that the cap is reached within the bounds.
FIRST_RUN_LIMIT == 2
\* main.rs:314 sets 10; scaled down so that the scan bound is reached.
MAX_PAGES_TO_SCAN == 2
\* main.rs:216 and main.rs:268: the wait used when a 429 answer names none.
DEFAULT_RETRY_AFTER == 30

Ids == 1..NumIds

\* struct Ad: title and link only feed the caption, so the model keeps the id
\* and whether image_url is Some.  In the model's universe the ads with an odd
\* id carry an image.
Ad(i) == [id |-> i, image_url |-> (i % 2 = 1)]

RECURSIVE NoDupIds(_)
NoDupIds(s) ==
    IF Len(s) <= 1 THEN TRUE
    ELSE /\ \A k \in 2..Len(s) : s[k] # s[1]
         /\ NoDupIds(Tail(s))

\* What scrape_kleinanzeigen_page can return for one page: the ads of the
\* page in document order.
PageContents ==
    UNION { { p \in [1..n -> {Ad(i) : i \in Ids}] : NoDupIds(p) } : n \in 0..MaxPageLen }

RECURSIVE Flatten(_)
Flatten(pages) ==
    IF Len(pages) = 0 THEN << >> ELSE Head(pages) \o Flatten(Tail(pages))

\* The listings the site can serve: every ad is listed once.
Sites == { s \in [1..NumSitePages -> PageContents] : NoDupIds(Flatten(s)) }

\* ------------------------------------------------------------ Result type
\* Result<Option<i64>, Box<dyn Error>> of the two send functions:
\* Ok(None) sent, Ok(Some(w)) rate limited with wait w, Err(_) failure.
OkNone == [ok |-> TRUE, val |-> << >>]
OkSome(w) == [ok |-> TRUE, val |-> <<w>>]
ErrResult == [ok |-> FALSE, val |-> << >>]

\* What the Telegram transport can answer to one call.
Responses == {"sent", "too_many_hint", "too_many", "rejected", "no_reply"}

\* send_photo_message, as a function of the transport's answer.
send_photo_message(resp) ==
    IF resp = "no_reply" THEN ErrResult                  \* send().await?
    ELSE IF resp = "sent" THEN OkNone                    \* status().is_success()
    ELSE IF resp = "too_many_hint" THEN OkSome(HintSecs) \* 429 with retry_after
    ELSE IF resp = "too_many" THEN OkSome(DEFAULT_RETRY_AFTER)
    ELSE ErrResult

\* send_text_message, as a function of the transport's answer.
send_text_message(resp) ==
    IF resp = "no_reply" THEN ErrResult
    ELSE IF resp = "sent" THEN OkNone
    ELSE IF resp = "too_many_hint" THEN OkSome(HintSecs)
    ELSE IF resp = "too_many" THEN OkSome(DEFAULT_RETRY_AFTER)
    ELSE ErrResult

\* The three match arms of main on a send result.
IsSent(r) == r = OkNone
IsRateLimited(r) == r.ok /\ r.val # << >>
IsErr(r) == ~r.ok

\* Result::is_ok(), used on the last attempt of each mode.
is_ok(r) == r.ok

\* --------------------------------------------------------- history store
\* The history file: ok = FALSE is a missing or malformed file.
NoFile == [ok |-> FALSE, ids |-> << >>]

\* What the file can hold when the first modelled run starts: nothing, or the
\* history earlier runs saved, which has at most MAX_SEEN_ADS ids.
PersistedHistories ==
    {NoFile} \cup
    { [ok |-> TRUE, ids |-> q] :
        q \in UNION { { h \in [1..n -> Ids] : NoDupIds(h) } : n \in 0..MAX_SEEN_ADS } }

\* load_seen_ads: a missing or malformed file is an empty queue.
load_seen_ads(f) == IF f.ok THEN f.ids ELSE << >>

\* Variant of Prune that drops the newest ids (pop_back for pop_front).
PruneNewest(q) == IF Len(q) > MAX_SEEN_ADS THEN SubSeq(q, 1, MAX_SEEN_ADS) ELSE q

\* Variant of Prune whose loop stops one element early.
RECURSIVE PruneLate(_)
PruneLate(q) == IF Len(q) > MAX_SEEN_ADS + 1 THEN PruneLate(Tail(q)) ELSE q

\* The pruning loop of main: pop_front while longer than MAX_SEEN_ADS.
RECURSIVE Prune(_)
Prune(q) == IF Len(q) > MAX_SEEN_ADS THEN Prune(Tail(q)) ELSE q

\* HashSet built from the queue.
SetOf(q) == { q[k] : k \in 1..Len(q) }


\* ------------------------------------------------------------------ state
VARIABLES
    credentials_set,      \* the placeholder credentials were replaced
    site,                 \* the listing pages the site serves
    file,                 \* seen_ads.json
    runs,                 \* runs of main() started so far
    pc,                   \* position of the run in main()
    exit,                 \* how the last run returned: "none", "ok", "err"
    seen_ads_queue,
    seen_ads_set,
    is_first_run,
    new_ads_found_total,
    first_run_sent_count,
    page,                 \* loop variable of the paging loop
    all_ads,              \* collected ads, each with the page and position it came from
    stop_paging,
    idx,                  \* position of the processing loop in all_ads
    send_success,
    fetch_log,            \* page numbers scraped in this run, in order
    calls,                \* send calls made for the ad being processed
    sleeps,               \* rate-limit backoffs slept for the ad being processed
    attempted,            \* positions of all_ads for which a send call was made
    succeeded,            \* positions of all_ads for which a send call returned Ok(None)
    appended,             \* positions of all_ads whose id was pushed to the queue
    rate_limited_out,     \* positions of all_ads whose send calls all returned Ok(Some(_))
    file_at_start,        \* the file as it was when the run began
    pre_prune,            \* the queue as it was before the pruning loop
    saved,                \* arguments of the save_seen_ads calls of this run
    prev_failed,          \* ids whose delivery failed in the previous run
    fetch_failed,         \* scrape_kleinanzeigen_page returned Err in this run
    skipped,              \* positions of all_ads the processing loop passed over as seen
    save_err              \* save_seen_ads returned Err in this run

vars == << credentials_set, site, file, runs, pc, exit, seen_ads_queue, seen_ads_set,
           is_first_run, new_ads_found_total, first_run_sent_count, page, all_ads,
           stop_paging, idx, send_success, fetch_log, calls, sleeps, attempted,
           succeeded, appended, rate_limited_out, file_at_start, pre_prune, saved, prev_failed,
           fetch_failed, skipped, save_err >>

envVars == << credentials_set, site >>
pagingVars == << page, all_ads, stop_paging, fetch_log >>
loadVars == << seen_ads_set, is_first_run, file_at_start, prev_failed >>
endVars == << file, pre_prune, saved, runs, exit >>
ghostSets == << attempted, succeeded, appended, rate_limited_out >>
runGhosts == << fetch_failed, skipped, save_err >>

\* The state before a run: the environment and the locals of main().
InitRest ==
    /\ credentials_set \in BOOLEAN
    /\ site \in Sites
    /\ file \in PersistedHistories
    /\ pc = "exited"
    /\ exit = "none"
    /\ seen_ads_queue = << >>
    /\ seen_ads_set = {}
    /\ is_first_run = FALSE
    /\ new_ads_found_total = 0
    /\ first_run_sent_count = 0
    /\ page = 1
    /\ all_ads = << >>
    /\ stop_paging = FALSE
    /\ idx = 1
    /\ send_success = FALSE
    /\ fetch_log = << >>
    /\ calls = << >>
    /\ sleeps = << >>
    /\ attempted = {}
    /\ succeeded = {}
    /\ appended = {}
    /\ rate_limited_out = {}
    /\ file_at_start = file
    /\ pre_prune = << >>
    /\ saved = << >>
    /\ prev_failed = {}
    /\ fetch_failed = FALSE
    /\ skipped = {}
    /\ save_err = FALSE

Init == runs = 0 /\ InitRest

\* The state before the last run that is followed.
InitLastRun == runs = MaxRuns - 1 /\ InitRest

\* Ids of the ads whose delivery was attempted and that were not appended.
FailedIds == { all_ads[i].id : i \in attempted \ appended }

\* The locals of main() as a run starts with them.
StartLocals ==
    /\ new_ads_found_total' = 0
    /\ first_run_sent_count' = 0
    /\ page' = 1
    /\ all_ads' = << >>
    /\ stop_paging' = FALSE
    /\ idx' = 1
    /\ send_success' = FALSE
    /\ fetch_log' = << >>
    /\ calls' = << >>
    /\ sleeps' = << >>
    /\ attempted' = {}
    /\ succeeded' = {}
    /\ appended' = {}
    /\ rate_limited_out' = {}
    /\ pre_prune' = << >>
    /\ saved' = << >>
    /\ file_at_start' = file
    /\ prev_failed' = FailedIds
    /\ fetch_failed' = FALSE
    /\ skipped' = {}
    /\ save_err' = FALSE

\* main, lines 280-287: with placeholder credentials the run returns Ok(()) at once.
GuardExit ==
    /\ pc = "exited"
    /\ runs < MaxRuns
    /\ ~credentials_set
    /\ runs' = runs + 1
    /\ exit' = "ok"
    /\ seen_ads_queue' = << >>
    /\ seen_ads_set' = {}
    /\ is_first_run' = FALSE
    /\ StartLocals
    /\ UNCHANGED << credentials_set, site, file, pc >>

\* main, lines 289-320: load the history, build the set, initialise the locals.
Load ==
    /\ pc = "exited"
    /\ runs < MaxRuns
    /\ credentials_set
    /\ runs' = runs + 1
    /\ exit' = "none"
    /\ seen_ads_queue' = load_seen_ads(file)
    /\ seen_ads_set' = SetOf(load_seen_ads(file))
    /\ is_first_run' = (Len(load_seen_ads(file)) = 0)
    /\ StartLocals
    /\ pc' = "paging"
    /\ UNCHANGED << credentials_set, site, file >>

\* ----------------------------------------------------------------- paging
\* What the site serves for page p; past its last page the listing is empty.
ServedPage(p) == IF p <= Len(site) THEN site[p] ELSE << >>

\* Variant of AnySeen that finds no page to hold a seen ad.
AnySeenNever(ads, seen) == \E k \in 1..Len(ads) : ads[k].id \in (seen \ seen)

\* Variant of AnySeen that looks at the first ad of the page only.
AnySeenFirstOnly(ads, seen) == ads[1].id \in seen

\* Line 346: current_ads.iter().any(|ad| seen_ads_set.contains(&ad.id)).
AnySeen(ads, seen) == \E k \in 1..Len(ads) : ads[k].id \in seen

\* The ads of page p as they are kept in all_ads.
Tagged(ads, p) ==
    [k \in 1..Len(ads) |->
        [id |-> ads[k].id, image_url |-> ads[k].image_url, page |-> p, pos |-> k]]

\* Variant of ErrReturn that takes a failed scrape for the end of the results.
ErrReturnAsEmptyPage == [pc |-> "process", exit |-> "none"]

\* Line 334, the `?` on the scrape: main returns the error.
ErrReturn == [pc |-> "exited", exit |-> "err"]

\* main, line 334: scrape_kleinanzeigen_page returns Err and `?` returns it from main.
FetchError ==
    /\ pc = "paging"
    /\ fetch_log' = Append(fetch_log, page)
    /\ fetch_failed' = TRUE
    /\ pc' = ErrReturn.pc
    /\ exit' = ErrReturn.exit
    /\ UNCHANGED << envVars, loadVars, ghostSets, file, runs, seen_ads_queue,
                    new_ads_found_total, first_run_sent_count, page, all_ads,
                    stop_paging, idx, send_success, calls, sleeps, pre_prune, saved,
                    skipped, save_err >>

\* main, lines 322-366: one iteration of the paging loop with a successful scrape.
FetchPage ==
    /\ pc = "paging"
    /\ fetch_log' = Append(fetch_log, page)
    /\ LET current_ads == ServedPage(page) IN
        IF Len(current_ads) = 0
        THEN /\ pc' = "process"
             /\ UNCHANGED << page, all_ads, stop_paging >>
        ELSE /\ stop_paging' = AnySeen(current_ads, seen_ads_set)
             /\ all_ads' = all_ads \o Tagged(current_ads, page)
             /\ IF stop_paging' \/ page = MAX_PAGES_TO_SCAN
                THEN pc' = "process" /\ page' = page
                ELSE pc' = "paging" /\ page' = page + 1
    /\ UNCHANGED << envVars, loadVars, ghostSets, endVars, seen_ads_queue,
                    new_ads_found_total, first_run_sent_count, idx, send_success,
                    calls, sleeps, runGhosts >>

\* The pages after a new ad was posted: carry takes the first place of the
\* first page and every ad moves down one place, the last ad of a page to the
\* top of the next page.
RECURSIVE ShiftedPages(_, _)
ShiftedPages(pages, carry) ==
    IF Len(pages) = 0 THEN << >>
    ELSE LET p == Head(pages) IN
         IF Len(p) = 0 THEN << p >> \o ShiftedPages(Tail(pages), carry)
         ELSE << << carry >> \o SubSeq(p, 1, Len(p) - 1) >>
                  \o ShiftedPages(Tail(pages), p[Len(p)])

\* The site between two requests of the paging loop (lines 322-366, GET at
\* lines 95-98): a new ad is posted while the run is between page 1 and the
\* next page, so that the ad that closed a page opens the next one.
ListingShift ==
    /\ pc = "paging"
    /\ page > 1
    /\ Len(site[1]) > 0
    /\ all_ads[1].id = site[1][1].id
    /\ \E i \in Ids :
          /\ \A k \in 1..Len(Flatten(site)) : Flatten(site)[k].id # i
          /\ site' = ShiftedPages(site, Ad(i))
    /\ UNCHANGED << credentials_set, loadVars, pagingVars, ghostSets, endVars, runGhosts,
                    pc, seen_ads_queue, new_ads_found_total, first_run_sent_count,
                    idx, send_success, calls, sleeps >>

\* ------------------------------------------------------------- processing
\* Variant of CapReached that never ends the processing loop.
CapReachedNever(first, count) == first /\ count < 0

\* Variant of CapReached with > for >=.
CapReachedLate(first, count) == first /\ count > FIRST_RUN_LIMIT

\* Line 371: is_first_run && first_run_sent_count >= FIRST_RUN_LIMIT.
CapReached(first, count) == first /\ count >= FIRST_RUN_LIMIT

\* Variant of IsNew that also looks at the ids appended during the run.
IsNewLive(ad, seen) == ad.id \notin (seen \cup SetOf(seen_ads_queue))

\* Line 375: !seen_ads_set.contains(&ad.id).
IsNew(ad, seen) == ad.id \notin seen

\* main, lines 369-385: the head of the processing loop, up to the first send call.
NextAd ==
    /\ pc = "process"
    /\ IF idx > Len(all_ads) \/ CapReached(is_first_run, first_run_sent_count)
       THEN /\ pc' = "finish"
            /\ UNCHANGED << idx, new_ads_found_total, skipped >>
       ELSE IF IsNew(all_ads[idx], seen_ads_set)
       THEN /\ new_ads_found_total' = new_ads_found_total + 1
            /\ pc' = IF all_ads[idx].image_url THEN "photo" ELSE "text"
            /\ idx' = idx
            /\ UNCHANGED skipped
       ELSE /\ idx' = idx + 1
            /\ pc' = "process"
            /\ skipped' = skipped \cup {idx}
            /\ UNCHANGED new_ads_found_total
    /\ send_success' = FALSE
    /\ UNCHANGED << envVars, loadVars, pagingVars, ghostSets, endVars, seen_ads_queue,
                    first_run_sent_count, calls, sleeps, fetch_failed, save_err >>

\* Where main goes after the first send_photo_message call (lines 387-457).
PhotoNext(r) ==
    IF IsSent(r) THEN "after_send"
    ELSE IF IsRateLimited(r) THEN "photo_retry"
    ELSE "fallback"

\* Variant of PhotoRetryNext that falls back to text when the retry fails.
PhotoRetryNextFallback(r) ==
    IF IsSent(r) THEN "after_send"
    ELSE IF IsRateLimited(r) THEN "photo_final"
    ELSE "fallback"

\* Where main goes after the first photo retry (lines 403-425).
PhotoRetryNext(r) ==
    IF IsSent(r) THEN "after_send"
    ELSE IF IsRateLimited(r) THEN "photo_final"
    ELSE "after_send"

\* Variant of FallbackNext that leaves main when the fallback call fails.
FallbackNextAbort(r) ==
    IF IsSent(r) THEN "after_send"
    ELSE IF IsRateLimited(r) THEN "fallback_retry"
    ELSE "exited"

\* Where main goes after the first send_text_message call of the fallback (lines 434-455).
FallbackNext(r) ==
    IF IsSent(r) THEN "after_send"
    ELSE IF IsRateLimited(r) THEN "fallback_retry"
    ELSE "after_send"

\* Variant of TextNext that never retries.
TextNextNoRetry(r) == "after_send"

\* Where main goes after the first send_text_message call of an ad without image
\* (lines 459-482).
TextNext(r) ==
    IF IsSent(r) THEN "after_send"
    ELSE IF IsRateLimited(r) THEN "text_retry"
    ELSE "after_send"

\* A send call of the given mode returned r: what the logs keep of it.
Logged(mode, r) ==
    /\ calls' = Append(calls, [mode |-> mode, result |-> r])
    /\ attempted' = attempted \cup {idx}
    /\ succeeded' = IF IsSent(r) THEN succeeded \cup {idx} ELSE succeeded

\* Variant of Attempt that retries without the backoff.
AttemptNoBackoff(mode, r, next) ==
    /\ Logged(mode, r)
    /\ send_success' = (send_success \/ IsSent(r))
    /\ sleeps' = sleeps
    /\ pc' = next

\* A first or middle attempt: Ok(None) sets send_success, Ok(Some(w)) sleeps w
\* seconds before the retry.
Attempt(mode, r, next) ==
    /\ Logged(mode, r)
    /\ send_success' = (send_success \/ IsSent(r))
    /\ sleeps' = IF IsRateLimited(r) THEN Append(sleeps, r.val[1]) ELSE sleeps
    /\ pc' = next

\* A last attempt: `if send_...(..).await.is_ok() { send_success = true; }`.
LastAttempt(mode, r) ==
    /\ Logged(mode, r)
    /\ send_success' = (send_success \/ is_ok(r))
    /\ sleeps' = sleeps
    /\ pc' = "after_send"

sendFrame == << envVars, loadVars, pagingVars, endVars, seen_ads_queue, appended,
                rate_limited_out, runGhosts,
                new_ads_found_total, first_run_sent_count, idx >>

\* main, lines 387-391, 392-400, 427-432: the first photo call.
SendPhoto ==
    /\ pc = "photo"
    /\ \E resp \in Responses :
          Attempt("photo", send_photo_message(resp), PhotoNext(send_photo_message(resp)))
    /\ UNCHANGED sendFrame

\* main, lines 403-412, 422-424: the photo retry after the first backoff.
SendPhotoRetry ==
    /\ pc = "photo_retry"
    /\ \E resp \in Responses :
          Attempt("photo", send_photo_message(resp), PhotoRetryNext(send_photo_message(resp)))
    /\ UNCHANGED sendFrame

\* main, lines 414-420: the final photo retry.
SendPhotoFinal ==
    /\ pc = "photo_final"
    /\ \E resp \in Responses : LastAttempt("photo", send_photo_message(resp))
    /\ UNCHANGED sendFrame

\* main, lines 433-446, 452-454: the text fallback after a failed first photo call.
SendFallback ==
    /\ pc = "fallback"
    /\ \E resp \in Responses :
          Attempt("text", send_text_message(resp), FallbackNext(send_text_message(resp)))
    /\ UNCHANGED sendFrame

\* main, lines 447-450: the one retry of the text fallback.
SendFallbackRetry ==
    /\ pc = "fallback_retry"
    /\ \E resp \in Responses : LastAttempt("text", send_text_message(resp))
    /\ UNCHANGED sendFrame

\* main, lines 459-472, 479-481: the text call for an ad without image.
SendText ==
    /\ pc = "text"
    /\ \E resp \in Responses :
          Attempt("text", send_text_message(resp), TextNext(send_text_message(resp)))
    /\ UNCHANGED sendFrame

\* main, lines 474-477: the one retry of the text call.
SendTextRetry ==
    /\ pc = "text_retry"
    /\ \E resp \in Responses : LastAttempt("text", send_text_message(resp))
    /\ UNCHANGED sendFrame

\* Every send call made for the ad was answered rate limited.
AllRateLimited(cs) == \A k \in 1..Len(cs) : IsRateLimited(cs[k].result)

\* main, lines 485-504: append the id when send_success, then go to the next ad.
AfterSend ==
    /\ pc = "after_send"
    /\ rate_limited_out' =
           IF AllRateLimited(calls) THEN rate_limited_out \cup {idx} ELSE rate_limited_out
    /\ IF send_success
       THEN /\ seen_ads_queue' = Append(seen_ads_queue, all_ads[idx].id)
            /\ appended' = appended \cup {idx}
            /\ first_run_sent_count' =
                   IF is_first_run THEN first_run_sent_count + 1 ELSE first_run_sent_count
       ELSE UNCHANGED << seen_ads_queue, appended, first_run_sent_count >>
    /\ idx' = idx + 1
    /\ pc' = "process"
    /\ send_success' = FALSE
    /\ calls' = << >>
    /\ sleeps' = << >>
    /\ UNCHANGED << envVars, loadVars, pagingVars, endVars, attempted, succeeded,
                    new_ads_found_total, runGhosts >>

\* ------------------------------------------------------------- end of run
\* Variant of FoundNew with >= for >.
FoundNewAlways(n) == n >= 0

\* Line 508: new_ads_found_total > 0.
FoundNew(n) == n > 0

\* What a save_seen_ads call can do to the file: write it, fail before touching
\* it, or fail after std::fs::write truncated it.
SaveOutcomes == {"written", "refused", "truncated"}

save_seen_ads(q, outcome, f) ==
    IF outcome = "written" THEN [ok |-> TRUE, ids |-> q]
    ELSE IF outcome = "refused" THEN f
    ELSE NoFile

\* main, lines 507-538: prune and save when new ads were found, then return Ok(()).
Finish ==
    /\ pc = "finish"
    /\ IF FoundNew(new_ads_found_total)
       THEN /\ pre_prune' = seen_ads_queue
            /\ seen_ads_queue' = Prune(seen_ads_queue)
            /\ saved' = Append(saved, seen_ads_queue')
            /\ \E outcome \in SaveOutcomes :
                  /\ file' = save_seen_ads(seen_ads_queue', outcome, file)
                  /\ save_err' = (outcome # "written")
       ELSE UNCHANGED << pre_prune, seen_ads_queue, saved, file, save_err >>
    /\ pc' = "exited"
    /\ exit' = "ok"
    /\ UNCHANGED << envVars, loadVars, pagingVars, ghostSets, runs, new_ads_found_total,
                    first_run_sent_count, idx, send_success, calls, sleeps,
                    fetch_failed, skipped >>

Next ==
    \/ GuardExit
    \/ Load
    \/ FetchError
    \/ FetchPage
    \/ NextAd
    \/ SendPhoto
    \/ SendPhotoRetry
    \/ SendPhotoFinal
    \/ SendFallback
    \/ SendFallbackRetry
    \/ SendText
    \/ SendTextRetry
    \/ AfterSend
    \/ Finish

Spec == Init /\ [][Next]_vars

\* The steps of a run that wait for nothing but an answer: main is one
\* sequential task, every await it makes returns (the HTTP client and the
\* sleeps complete), so a run that can take a step takes one.
RunStep ==
    \/ FetchPage
    \/ NextAd
    \/ SendPhoto
    \/ SendPhotoRetry
    \/ SendPhotoFinal
    \/ SendFallback
    \/ SendFallbackRetry
    \/ SendText
    \/ SendTextRetry
    \/ AfterSend
    \/ Finish

LiveSpec == InitLastRun /\ [][Next]_vars /\ WF_vars(RunStep)

\* One run of the program on a site whose listing can change while the run
\* is paging.
NextShift ==
    \/ Next
    \/ ListingShift

SpecShift == InitLastRun /\ [][NextShift]_vars

\* ------------------------------------------- the streaming machine (design)
\* The Novelty Scanner of the design, which classifies and delivers each record
\* while it is paging. Scan of one page from position k, n deliveries having
\* been attempted before it: the ids delivery is attempted for, and whether
\* StopPaging was set (a seen id, or the first-run cap reached).
RECURSIVE StreamRecords(_, _, _, _, _)
StreamRecords(ads, k, n, seen, first) ==
    IF first /\ n >= FIRST_RUN_LIMIT THEN [att |-> << >>, stop |-> TRUE]
    ELSE IF k > Len(ads) THEN [att |-> << >>, stop |-> FALSE]
    ELSE IF ads[k].id \in seen THEN [att |-> << >>, stop |-> TRUE]
    ELSE LET r == StreamRecords(ads, k + 1, n + 1, seen, first)
         IN  [att |-> << ads[k].id >> \o r.att, stop |-> r.stop]

\* The Paging state from page p on: the pages fetched and the ids delivery is
\* attempted for. The fetch of page fail, if reached, ends the run.
RECURSIVE StreamPaging(_, _, _, _, _)
StreamPaging(p, n, seen, first, fail) ==
    IF p = fail \/ Len(ServedPage(p)) = 0 THEN [fetches |-> << p >>, att |-> << >>]
    ELSE LET r == StreamRecords(ServedPage(p), 1, n, seen, first) IN
         IF r.stop \/ p = MAX_PAGES_TO_SCAN THEN [fetches |-> << p >>, att |-> r.att]
         ELSE LET rest == StreamPaging(p + 1, n + Len(r.att), seen, first, fail)
              IN  [fetches |-> << p >> \o rest.fetches, att |-> r.att \o rest.att]

\* The streaming machine on the history the run loaded, the pages the site
\* serves and the fetch failure the run met, if it met one.
Streaming ==
    StreamPaging(1, 0, SetOf(load_seen_ads(file_at_start)),
                 Len(load_seen_ads(file_at_start)) = 0,
                 IF fetch_failed THEN fetch_log[Len(fetch_log)] ELSE 0)

\* What the streaming machine hands to the History Store at the end of a run,
\* delivered telling the ids whose delivery returned Delivered: nothing when no
\* new record was found, else the loaded history followed by the delivered ids,
\* pruned from the front to the cap.
StreamSaved(delivered) ==
    IF Len(Streaming.att) = 0 THEN << >>
    ELSE LET q == load_seen_ads(file_at_start)
                      \o SelectSeq(Streaming.att, LAMBDA i : i \in delivered)
         IN  << IF Len(q) > MAX_SEEN_ADS
                THEN SubSeq(q, Len(q) - MAX_SEEN_ADS + 1, Len(q)) ELSE q >>

\* ================================================================= claims
\* The run has returned Ok(()) past the credentials guard.
RunCompleted == pc = "exited" /\ exit = "ok" /\ runs >= 1 /\ credentials_set

\* Positions of all_ads whose delivery has concluded.
Concluded == { i \in 1..Len(all_ads) : i < idx }

\* The send calls of one mode among the calls made for the ad being processed.
ModeCalls(mode) == SelectSeq(calls, LAMBDA c : c.mode = mode)

SendPcs == {"photo", "photo_retry", "photo_final", "fallback", "fallback_retry",
            "text", "text_retry"}

\* ---- C1
\* C1 (as claimed): for every record whose delivery has concluded, its id was
\* appended to the history if and only if some send call for it returned success.
C1_DeliveryHistoryCoupling ==
    \A i \in Concluded : (i \in appended) <=> (i \in succeeded)

\* ---- C2
\* C2 (as claimed): when page k holds at position i a record whose id is in the
\* loaded seen-set, no record at a later position of page k and no record of a
\* later page has a delivery attempted.
C2_StopOnSeenAsClaimed ==
    \A k \in 1..Len(site) : \A i \in 1..Len(site[k]) :
        site[k][i].id \in seen_ads_set =>
            \A j \in attempted :
                /\ all_ads[j].page <= k
                /\ all_ads[j].page = k => all_ads[j].pos < i

\* C2 (amended): when page k holds a record whose id is in the loaded seen-set,
\* no page after k is scraped and no record of a page after k has a delivery
\* attempted; and once the run has completed, every record of the collected
\* pages whose id is not in the loaded seen-set has had a delivery attempted,
\* the records of page k behind the seen one included.
C2_StopAfterSeenPage ==
    \A k \in 1..Len(site) :
        (\E i \in 1..Len(site[k]) : site[k][i].id \in seen_ads_set) =>
            /\ \A j \in attempted : all_ads[j].page <= k
            /\ \A n \in 1..Len(fetch_log) : fetch_log[n] <= k
            /\ RunCompleted =>
                  \A j \in 1..Len(all_ads) :
                      all_ads[j].id \notin seen_ads_set => j \in attempted

\* C2 witness: a completed run delivered a record that sits behind a seen
\* record on the same page.
C2_Witness ==
    /\ RunCompleted
    /\ \E j \in attempted : \E i \in 1..Len(all_ads) :
          /\ all_ads[i].id \in seen_ads_set
          /\ all_ads[i].page = all_ads[j].page
          /\ all_ads[i].pos < all_ads[j].pos

\* ---- C3
\* C3 (as claimed): in a run whose history loaded empty at most FIRST_RUN_LIMIT
\* records have a delivery attempted, whatever the outcomes.
C3_FirstRunCapAsClaimed ==
    is_first_run => Cardinality(attempted) <= FIRST_RUN_LIMIT

\* C3 (amended): in a run whose history loaded empty at most FIRST_RUN_LIMIT
\* records are counted as sent, and a send call is made only while fewer than
\* FIRST_RUN_LIMIT are counted; records whose delivery failed are not counted.
C3_FirstRunCapCountsSent ==
    is_first_run =>
        /\ first_run_sent_count = Cardinality(appended)
        /\ first_run_sent_count <= FIRST_RUN_LIMIT
        /\ pc \in SendPcs => first_run_sent_count < FIRST_RUN_LIMIT

\* C3 witness: a first run that reached the cap after attempting more than
\* FIRST_RUN_LIMIT records.
C3_Witness ==
    /\ RunCompleted
    /\ is_first_run
    /\ first_run_sent_count = FIRST_RUN_LIMIT
    /\ Cardinality(attempted) > FIRST_RUN_LIMIT

\* ---- C4
\* C4 (as claimed): a record whose send calls were all answered rate limited,
\* the final retry included, is not counted as sent and its id is not appended.
C4_RateLimitExhaustionIsFailure ==
    /\ rate_limited_out \cap appended = {}
    /\ (pc = "after_send" /\ AllRateLimited(calls)) => ~send_success

\* ---- C5
\* C5 (as claimed): the listing being the same in both runs, every record whose delivery
\* failed in the previous run has a delivery attempted in the run that follows.
C5_FailedRetriedNextRun ==
    (RunCompleted /\ runs >= 2) =>
        \A f \in prev_failed : \E j \in attempted : all_ads[j].id = f

\* ---- C6
\* C6 (as claimed): in either mode a rate-limited first attempt is followed by
\* a retry in that mode, and a rate-limited first retry by a second, final one.
C6_TwoRetriesEitherModeAsClaimed ==
    pc = "after_send" =>
        \A mode \in {"photo", "text"} :
            LET cs == ModeCalls(mode) IN
            /\ (Len(cs) >= 1 /\ IsRateLimited(cs[1].result)) => Len(cs) >= 2
            /\ (Len(cs) >= 2 /\ IsRateLimited(cs[1].result)
                             /\ IsRateLimited(cs[2].result)) => Len(cs) = 3

\* C6 (amended): a rate-limited image attempt is retried after a backoff and,
\* when the retry is rate limited again, retried a second, final time (up to 3
\* image attempts); a rate-limited text attempt, the plain fallback included,
\* is retried after a backoff once only (up to 2 text attempts).  Every retry
\* follows exactly one backoff.
C6_RetriesPerMode ==
    pc = "after_send" =>
        LET ph == ModeCalls("photo")
            tx == ModeCalls("text")
            Retries(cs) == IF Len(cs) = 0 THEN 0 ELSE Len(cs) - 1
        IN  /\ Len(ph) <= 3
            /\ (Len(ph) >= 1 /\ IsRateLimited(ph[1].result)) => Len(ph) >= 2
            /\ (Len(ph) >= 2 /\ IsRateLimited(ph[2].result)) => Len(ph) = 3
            /\ \A k \in 1..(Len(ph) - 1) : IsRateLimited(ph[k].result)
            /\ Len(tx) <= 2
            /\ (Len(tx) >= 1 /\ IsRateLimited(tx[1].result)) => Len(tx) = 2
            /\ Len(tx) = 2 => IsRateLimited(tx[1].result)
            /\ Len(sleeps) = Retries(ph) + Retries(tx)

\* C6 witness: a text delivery was rate limited on its first attempt and on
\* its one retry, and the delivery has ended.
C6_Witness ==
    /\ pc = "after_send"
    /\ Len(ModeCalls("text")) = 2
    /\ \A k \in 1..2 : IsRateLimited(ModeCalls("text")[k].result)

\* ---- C7
\* C7 (as claimed): whenever a photo call returns a failure other than rate
\* limiting, on the first attempt or on a retry, a text call follows for the
\* same ad.
C7_ImageFailureFallsBack ==
    pc = "after_send" =>
        \A k \in 1..Len(calls) :
            (calls[k].mode = "photo" /\ IsErr(calls[k].result)) =>
                \E j \in (k + 1)..Len(calls) : calls[j].mode = "text"

\* ---- C8
\* No ad of the collected pages is new with respect to the loaded history.
NoNewCollected == \A i \in 1..Len(all_ads) : all_ads[i].id \in seen_ads_set

\* C8: a completed run that found no new record on the scanned pages made no
\* save call, did not change the queue it loaded and left the file as it was.
C8_NoWriteWithoutNewItems ==
    (RunCompleted /\ NoNewCollected) =>
        /\ saved = << >>
        /\ file = file_at_start
        /\ seen_ads_queue = load_seen_ads(file_at_start)

\* C8 witness: a completed run over a stored history scanned a non-empty page
\* and found nothing new.
C8_Witness ==
    /\ RunCompleted
    /\ NoNewCollected
    /\ Len(all_ads) > 0
    /\ file_at_start.ok
    /\ Len(file_at_start.ids) > 0

\* ---- C9
\* The last n elements of q, in order.
LastN(q, n) == [k \in 1..n |-> q[Len(q) - n + k]]

\* C9: when the history is longer than MAX_SEEN_ADS after the run's appends,
\* what is handed to save_seen_ads has exactly MAX_SEEN_ADS elements, the last
\* MAX_SEEN_ADS of the sequence before pruning, in order; the file holds that
\* sequence when the write went through.
C9_FifoPruning ==
    (pc = "exited" /\ Len(pre_prune) > MAX_SEEN_ADS) =>
        /\ saved = << LastN(pre_prune, MAX_SEEN_ADS) >>
        /\ Len(saved[1]) = MAX_SEEN_ADS
        /\ seen_ads_queue = saved[1]
        /\ file.ok => file.ids \in {saved[1], load_seen_ads(file_at_start)}

\* C9 witness: a run ended with more than MAX_SEEN_ADS ids before pruning and
\* its save went through.
C9_Witness ==
    /\ pc = "exited"
    /\ Len(pre_prune) > MAX_SEEN_ADS
    /\ file.ok
    /\ file # file_at_start
    /\ file.ids = seen_ads_queue

\* ---- C10
\* C10: after every run, in any sequence of runs, the queue in memory and the
\* history the file holds have at most MAX_SEEN_ADS ids.
C10_HistoryCap ==
    /\ pc = "exited" => Len(seen_ads_queue) <= MAX_SEEN_ADS
    /\ Len(load_seen_ads(file)) <= MAX_SEEN_ADS

\* C10 witness: a second run that appended to a stored history ended with the
\* queue and the file at the cap.
C10_Witness ==
    /\ RunCompleted
    /\ runs = 2
    /\ appended # {}
    /\ Len(file_at_start.ids) > 0
    /\ Len(seen_ads_queue) = MAX_SEEN_ADS
    /\ file.ok
    /\ file.ids = seen_ads_queue

\* ---- C11
\* C11: a run in which the fetch of a page failed has returned the error to its
\* caller, has made no delivery attempt, has called save_seen_ads not once, and
\* has left the history file as it was when the run began.
C11_FetchFailureFatalNoPersist ==
    fetch_failed =>
        /\ pc = "exited"
        /\ exit = "err"
        /\ saved = << >>
        /\ file = file_at_start
        /\ attempted = {}
        /\ seen_ads_queue = load_seen_ads(file_at_start)

\* A fetch failed on the second page, after the first page had brought an ad
\* the loaded history does not hold.
C11_Witness ==
    /\ fetch_failed
    /\ fetch_log = << 1, 2 >>
    /\ \E i \in 1..Len(all_ads) : all_ads[i].id \notin SetOf(load_seen_ads(file_at_start))

\* ---- C12
\* The ids of the ads among the first n of all_ads for which a send call
\* returned success, in the order of their delivery.
RECURSIVE DeliveredIds(_)
DeliveredIds(n) ==
    IF n = 0 THEN << >>
    ELSE IF n \in succeeded THEN Append(DeliveredIds(n - 1), all_ads[n].id)
    ELSE DeliveredIds(n - 1)

\* q cut from the front to the cap.
CutFromFront(q) == IF Len(q) > MAX_SEEN_ADS THEN LastN(q, MAX_SEEN_ADS) ELSE q

\* C12 (as claimed): when a run that found at least one new record completes
\* and its save went through, the history file holds the loaded history
\* followed by the ids of the records delivered successfully in this run, in
\* delivery order, cut from the front to the cap.
C12_AppendOrder ==
    (RunCompleted /\ new_ads_found_total > 0 /\ ~save_err) =>
        /\ file.ok
        /\ file.ids = CutFromFront(load_seen_ads(file_at_start)
                                      \o DeliveredIds(Len(all_ads)))

\* ---- C13
\* The calls made for the ad being processed that were answered rate limited.
RateLimitedCalls == SelectSeq(calls, LAMBDA c : IsRateLimited(c.result))

\* The delivery of the ad being processed has ended, sent by the retry of a
\* call that was answered rate limited.
RecoveredByRetry ==
    /\ pc = "after_send"
    /\ Len(calls) >= 2
    /\ IsSent(calls[Len(calls)].result)
    /\ IsRateLimited(calls[Len(calls) - 1].result)

\* C13: when a send call is answered rate limited with a wait of w seconds (the
\* retry_after of the answer, or 30 when the answer carries none) and its retry
\* succeeds, the retry is a call of the same kind, the run has slept exactly
\* once for each rate limited answer, w seconds for that one, the record counts
\* as sent, and the next step appends its id to the history queue and counts
\* it for the first-run cap.
C13_RateLimitRecovery ==
    /\ [](RecoveredByRetry =>
            LET n == Len(calls)
                w == calls[n - 1].result.val[1]
            IN  /\ calls[n].mode = calls[n - 1].mode
                /\ w \in {HintSecs, DEFAULT_RETRY_AFTER}
                /\ sleeps = [k \in 1..Len(RateLimitedCalls) |->
                                 RateLimitedCalls[k].result.val[1]]
                /\ sleeps[Len(sleeps)] = w
                /\ (n = 2 => sleeps = << w >>)
                /\ send_success
                /\ idx \in succeeded
                /\ send_text_message("too_many") = OkSome(DEFAULT_RETRY_AFTER)
                /\ send_photo_message("too_many") = OkSome(DEFAULT_RETRY_AFTER)
                /\ send_text_message("too_many_hint") = OkSome(HintSecs)
                /\ send_photo_message("too_many_hint") = OkSome(HintSecs))
    /\ [][RecoveredByRetry =>
            /\ seen_ads_queue' = Append(seen_ads_queue, all_ads[idx].id)
            /\ appended' = appended \cup {idx}
            /\ is_first_run => first_run_sent_count' = first_run_sent_count + 1
            /\ pc' = "process"]_vars

\* A text call was answered 429 without retry_after and its retry was sent.
C13_Witness ==
    /\ RecoveredByRetry
    /\ calls = << [mode |-> "text", result |-> OkSome(DEFAULT_RETRY_AFTER)],
                  [mode |-> "text", result |-> OkNone] >>
    /\ sleeps = << DEFAULT_RETRY_AFTER >>

\* ---- C14
\* The ids of the history as the run loaded it from the file.
LoadedIds == SetOf(load_seen_ads(file_at_start))

\* C14: whether the processing loop takes a record as new or as seen is a
\* function of the record's id and of the history the run loaded, whatever the
\* answers to the send calls and whatever was appended to the queue meanwhile:
\* every record passed is in one of the two classes, a record is sent for
\* exactly when its id is not in the loaded history and passed over exactly
\* when it is.
C14_ClassificationByLoadedHistory ==
    /\ \A i \in Concluded : i \in attempted \cup skipped
    /\ attempted \cap skipped = {}
    /\ \A i \in attempted : all_ads[i].id \notin LoadedIds
    /\ \A i \in skipped : all_ads[i].id \in LoadedIds
    /\ pc \in SendPcs \cup {"after_send"} => all_ads[idx].id \notin LoadedIds

\* A record was taken as new although its id had been appended to the queue
\* earlier in the same run, the history having been loaded with ids in it.
C14_Witness ==
    /\ \E i, j \in attempted :
          /\ i < j
          /\ i \in appended
          /\ all_ads[i].id = all_ads[j].id
    /\ LoadedIds # {}

\* ---- C15
\* C15: once a run has made the first move to deliver a record, whatever the
\* answers to its send calls (sent, rate limited to the end, photo and text
\* fallback both failed, an error of the transport), the delivery ends, the
\* processing loop goes on to the record after it, and this same run reaches
\* the end of main and returns Ok(()).
C15_DeliveryFailureDoesNotAbort ==
    /\ [][pc = "after_send" => (pc' = "process" /\ idx' = idx + 1)]_vars
    /\ \A n \in 1..MaxRuns :
          (runs = n /\ pc \in SendPcs \cup {"after_send"})
              ~> (runs = n /\ pc = "exited" /\ exit = "ok")

\* A run returned Ok(()) after a delivery that failed in photo and in text
\* fallback, a later record having been sent for and the history saved.
C15_Witness ==
    /\ RunCompleted
    /\ saved # << >>
    /\ \E i, j \in attempted :
          /\ i < j
          /\ i \notin appended
          /\ i \notin rate_limited_out
          /\ all_ads[i].image_url

\* ---- C16
\* C16 (as claimed): a run whose save_seen_ads call failed still returns Ok(()),
\* keeps what it recorded of the notifications it sent, and leaves on disk a
\* history that the next run loads as the history this run loaded.
C16_PersistFailureTolerated ==
    (pc = "exited" /\ save_err) =>
        /\ exit = "ok"
        /\ appended \subseteq attempted
        /\ load_seen_ads(file) = load_seen_ads(file_at_start)

\* ---- C17
\* The run is a first run in which the processing loop has counted
\* FIRST_RUN_LIMIT records as sent, or has finished FIRST_RUN_LIMIT deliveries.
FirstRunCapHit ==
    /\ pc # "exited"
    /\ is_first_run
    /\ \/ first_run_sent_count >= FIRST_RUN_LIMIT
       \/ Cardinality(succeeded) >= FIRST_RUN_LIMIT /\ pc \in {"process", "finish"}

\* C17: in a first run, from the moment the first-run cap is reached, no step
\* of the run fetches a page, takes up another record of all_ads, classifies
\* one or makes a send call.
C17_NothingAfterFirstRunCap ==
    [][FirstRunCapHit =>
          /\ fetch_log' = fetch_log
          /\ all_ads' = all_ads
          /\ idx' = idx
          /\ attempted' = attempted
          /\ skipped' = skipped
          /\ new_ads_found_total' = new_ads_found_total
          /\ pc' \in {"finish", "exited"}]_vars

\* A first run ended at the cap with a collected record left unprocessed.
C17_Witness ==
    /\ RunCompleted
    /\ is_first_run
    /\ first_run_sent_count = FIRST_RUN_LIMIT
    /\ idx <= Len(all_ads)
    /\ Len(fetch_log) = MAX_PAGES_TO_SCAN

\* ---- C18
\* Page k on the site yields no record or holds a record whose id is in loaded.
EndsPagingOn(k, loaded) ==
    \/ Len(ServedPage(k)) = 0
    \/ \E i \in 1..Len(ServedPage(k)) : ServedPage(k)[i].id \in loaded

\* Page k yields no record or holds a record whose id is in the history the
\* run loaded.
EndsPaging(k) == EndsPagingOn(k, LoadedIds)

\* C18: the pages a run has fetched are 1, 2, ... in this order without gap or
\* repetition, at most MAX_PAGES_TO_SCAN of them, the paging loop stands at the
\* page after the last one fetched, and no page was fetched after a page that
\* yielded no record or that held a record whose id is in the loaded history.
C18_PagingBoundAndStop ==
    /\ \A k \in 1..Len(fetch_log) : fetch_log[k] = k
    /\ Len(fetch_log) <= MAX_PAGES_TO_SCAN
    /\ pc = "paging" => page = Len(fetch_log) + 1
    /\ Len(fetch_log) > 1 =>
          LET loaded == LoadedIds
          IN  \A j \in 1..(Len(fetch_log) - 1) : ~EndsPagingOn(j, loaded)

\* The paging loop stopped after page 1, which held a seen record, although
\* the site had records on page 2.
C18_Witness ==
    /\ pc = "process"
    /\ fetch_log = << 1 >>
    /\ Len(ServedPage(1)) > 0
    /\ EndsPaging(1)
    /\ Len(ServedPage(2)) > 0

\* ---- C19
\* The ids of the ads among the first n of all_ads for which a send call was
\* made, in the order of the calls.
RECURSIVE AttemptedIds(_)
AttemptedIds(n) ==
    IF n = 0 THEN << >>
    ELSE IF n \in attempted THEN Append(AttemptedIds(n - 1), all_ads[n].id)
    ELSE AttemptedIds(n - 1)

\* The run, past the credentials guard, has returned.
RunReturned == pc = "exited" /\ runs >= 1 /\ credentials_set

\* C19 (as claimed): a run of the batch flow has fetched the pages the
\* streaming machine fetches on the same history, pages and answers, has
\* attempted delivery for the same records in the same order, and, when it
\* returns Ok(()), has handed the same history to save_seen_ads.
C19_BatchEqualsStreaming ==
    RunReturned =>
        /\ fetch_log = Streaming.fetches
        /\ AttemptedIds(Len(all_ads)) = Streaming.att
        /\ exit = "ok" => saved = StreamSaved({ all_ads[i].id : i \in succeeded })

\* No fetch failed, no collected page holds a new record behind a seen one,
\* and a first run collected fewer records than the first-run cap.
FlowsCoincide ==
    /\ exit = "ok"
    /\ \A i, j \in 1..Len(all_ads) :
          (i < j /\ all_ads[i].page = all_ads[j].page /\ all_ads[i].id \in LoadedIds)
              => all_ads[j].id \in LoadedIds
    /\ is_first_run => Len(all_ads) < FIRST_RUN_LIMIT

\* s is a prefix of t.
IsPrefix(s, t) == Len(s) <= Len(t) /\ s = SubSeq(t, 1, Len(s))

\* C19 (amended): the pages the streaming machine fetches are a prefix of the
\* pages the batch flow has fetched; when no fetch failed, no collected page
\* holds a new record behind a seen one and a first run collected fewer records
\* than the first-run cap, the two flows fetch the same pages and attempt
\* delivery for the same records in the same order.
C19_BatchEqualsStreamingWhenFlowsCoincide ==
    RunReturned =>
        LET stream == Streaming
        IN  /\ IsPrefix(stream.fetches, fetch_log)
            /\ FlowsCoincide =>
                  /\ fetch_log = stream.fetches
                  /\ AttemptedIds(Len(all_ads)) = stream.att

\* A run in which the flows coincide: it stopped after a page whose seen
\* record stands behind a new one for which delivery was attempted.
C19_Witness ==
    /\ RunReturned
    /\ FlowsCoincide
    /\ fetch_log = << 1, 2 >>
    /\ stop_paging
    /\ attempted # {}
    /\ skipped # {}

\* ---- C20
\* C20 (as claimed): also when the listing shifts between two page fetches and
\* an id comes up twice among the collected records, no delivery is attempted
\* for an id after a delivery for it succeeded in the same run, and neither the
\* history queue nor the history file holds an id twice.
C20_NoDuplicateNotification ==
    /\ \A i, j \in attempted :
          (i < j /\ all_ads[i].id = all_ads[j].id) => i \notin succeeded
    /\ NoDupIds(seen_ads_queue)
    /\ NoDupIds(file.ids)

\* ---- C21
\* C21: in a run that loaded an empty history, at most FIRST_RUN_LIMIT ids have
\* been appended to the queue, which holds nothing else, before pruning as
\* after it; what the run hands to save_seen_ads, and the file once the run
\* has written it, hold at most FIRST_RUN_LIMIT ids.
C21_FirstRunAppendBound ==
    is_first_run =>
        /\ Cardinality(appended) <= FIRST_RUN_LIMIT
        /\ first_run_sent_count = Cardinality(appended)
        /\ Len(seen_ads_queue) <= FIRST_RUN_LIMIT
        /\ Len(pre_prune) <= FIRST_RUN_LIMIT
        /\ \A k \in 1..Len(saved) : Len(saved[k]) <= FIRST_RUN_LIMIT
        /\ (file # file_at_start /\ file.ok) => Len(file.ids) <= FIRST_RUN_LIMIT

\* A first run wrote FIRST_RUN_LIMIT ids to the file and left a collected
\* record unprocessed.
C21_Witness ==
    /\ RunCompleted
    /\ is_first_run
    /\ Cardinality(appended) = FIRST_RUN_LIMIT
    /\ idx <= Len(all_ads)
    /\ file.ok
    /\ Len(file.ids) = FIRST_RUN_LIMIT
    /\ file # file_at_start

\* ---- C22
\* C22: a run makes at most 3 send calls for a record, photo calls, retries
\* after a rate limited answer and text fallback counted together, at most 2
\* of them for a record without image; and a run that has started, its calls
\* returning whatever the transport answers, comes to its end.
C22_BoundedEffortAndTermination ==
    /\ [](/\ Len(calls) <= 3
          /\ Len(sleeps) <= 2
          /\ (pc \in SendPcs \cup {"after_send"} /\ ~all_ads[idx].image_url)
                => Len(calls) <= 2
          /\ pc = "after_send" => Len(calls) >= 1)
    /\ \A n \in 1..MaxRuns :
          (runs = n /\ pc # "exited") ~> (runs = n /\ pc = "exited")

\* A run came to its end after a record with image for which every one of
\* the three photo calls was answered rate limited.
C22_Witness ==
    /\ RunCompleted
    /\ \E i \in rate_limited_out : all_ads[i].image_url
    /\ Cardinality(attempted) >= 2

====
